---- MODULE Spec2Model ----
(***************************************************************************)
(* A model of src/vertex_animation.py: the "Process Anim Meshes" operator  *)
(* of the Vertex Animation add-on.  One invocation of                      *)
(* OBJECT_OT_ProcessAnimMeshes.execute is followed step by step:           *)
(* validation, per-frame sampling of the selected mesh objects, the export *)
(* mesh, the encoder's rows, the bake into two images and the two saves.   *)
(*                                                                         *)
(* Floats are modelled as exact fractions <<numerator, denominator>> with  *)
(* a positive denominator, so rounding error is outside the model.         *)
(* The host (bpy) is modelled by what the add-on asks of it: bpy.data      *)
(* .meshes / .objects / .images as collections of datablocks, the          *)
(* dependency graph as a deterministic function of scene and frame.        *)
(***************************************************************************)
EXTENDS Integers, Sequences, FiniteSets

\* ------------------------------------------------------------ bounds
\* Most selected mesh objects of a sampled scene.
MaxObjects == 2
\* Most vertices of one (small) selected object.
MaxVerts == 2
\* Largest frame_end of a sampled scene.
MaxFrameEnd == 3

\* ------------------------------------------------- program constants
\* execute: "if vertex_count > 8192".
VertexLimit == 8192
\* execute: "if frame_count > 8192".
FrameLimit == 8192

\* OBJECT_OT_ProcessAnimMeshes.allowed_modifiers.
allowed_modifiers ==
    { "ARMATURE", "CAST", "CURVE", "DISPLACE", "HOOK",
      "LAPLACIANDEFORM", "LATTICE", "MESH_DEFORM",
      "SHRINKWRAP", "SIMPLE_DEFORM", "SMOOTH",
      "CORRECTIVE_SMOOTH", "LAPLACIANSMOOTH",
      "SURFACE_DEFORM", "WARP", "WAVE" }

\* ----------------------------------------------------------- floats
Zero == <<0, 1>>
One == <<1, 1>>
Half == <<1, 2>>

Flt(n) == <<n, 1>>
FEq(a, b) == a[1] * b[2] = b[1] * a[2]
FLeq(a, b) == a[1] * b[2] <= b[1] * a[2]
FAdd(a, b) == <<a[1] * b[2] + b[1] * a[2], a[2] * b[2]>>
FSub(a, b) == <<a[1] * b[2] - b[1] * a[2], a[2] * b[2]>>
FMul(a, b) == <<a[1] * b[1], a[2] * b[2]>>
FNeg(a) == <<-a[1], a[2]>>
\* a / b for b # 0, the denominator kept positive.
FDiv(a, b) == IF b[1] > 0 THEN <<a[1] * b[2], a[2] * b[1]>>
              ELSE <<-(a[1] * b[2]), a[2] * (-b[1])>>
\* The least / greatest element of a non-empty finite set of floats.
FMinOf(S) == CHOOSE m \in S : \A x \in S : FLeq(m, x)
FMaxOf(S) == CHOOSE m \in S : \A x \in S : FLeq(x, m)

\* round(x, 2) of a length given in thousandths, in thousandths.
Round2(milli) == ((milli + 5) \div 10) * 10

normalize_signed_to_zero_to_one_space(x) == FMul(FAdd(x, One), Half)

VARIABLES
    scene,              \* context.scene: frame range, unit settings, animation
    selected_objects,   \* the selected objects of type MESH, in order
    blend_path,         \* bpy.data.filepath ("" when never saved)
    pc,                 \* where the invocation of execute stands
    result,             \* "NONE", "CANCELLED", "FINISHED" or "RAISED"
    reports,            \* the messages passed to self.report({'ERROR'}, ...)
    frames_set,         \* the frames passed to scene.frame_set, in order
    frame_k,            \* get_per_frame_mesh_data: index of the next frame
    ob_i,               \* get_per_frame_mesh_data: index of the next object
    bm,                 \* the bmesh of the frame being merged (positions)
    mesh,               \* the per-object mesh between new_from_object and remove
    meshes,             \* the list of per-frame merged meshes
    data_meshes,        \* bpy.data.meshes: ids of the live mesh datablocks
    mesh_kind,          \* every mesh ever created, by id: its kind
    removed,            \* the ids passed to data.meshes.remove, in order
    export_mesh_data,   \* execute: the copy of meshes[0] (0: none yet)
    data_objects,       \* bpy.data.objects created by the bake
    row,                \* get_vertex_data: rows emitted so far
    offsets,            \* get_vertex_data / bake_vertex_data: flat offsets
    normals,            \* get_vertex_data: flat normals
    stale_read,         \* a removed mesh's vertices have been read
    extents,            \* bake_vertex_data's locals once computed
    data_images,        \* bpy.data.images created by the bake
    saved               \* the images save_image_exr has saved, in order

vars == <<scene, selected_objects, blend_path, pc, result, reports, frames_set,
          frame_k, ob_i, bm, mesh, meshes, data_meshes, mesh_kind, removed,
          export_mesh_data, data_objects, row, offsets, normals, stale_read,
          extents, data_images, saved>>

\* ------------------------------------------------------------ inputs
\* The modifier stacks of the small objects: deform-only, and one with a
\* modifier that is not allowed after one that is.
Modifiers == { <<"ARMATURE">>, <<"ARMATURE", "SUBSURF">> }
Clips == { "static", "sway", "rise", "sink" }
UnitSystems == { "METRIC", "IMPERIAL" }
\* unit_settings.scale_length in thousandths: 0.01, 0.012, 1.0.
ScaleLengths == { 10, 12, 1000 }

Object(n, mods) == [nverts |-> n, modifiers |-> mods]
SmallObjects == { Object(n, m) : n \in 1..MaxVerts, m \in Modifiers }

RECURSIVE ObjectLists(_)
ObjectLists(k) ==
    IF k = 0 THEN { <<>> }
    ELSE LET shorter == ObjectLists(k - 1)
         IN shorter \cup { Append(l, o) : l \in { s \in shorter : Len(s) = k - 1 },
                                          o \in SmallObjects }

Scene(fs, fe, st, us, sl, clip) ==
    [frame_start |-> fs, frame_end |-> fe, frame_step |-> st,
     unit_system |-> us, scale_length |-> sl, clip |-> clip]

\* Scenes with small objects: every combination.  The host keeps
\* frame_end >= frame_start and frame_step >= 1.
SmallScenes ==
    { Scene(fs, fe, st, us, sl, clip) :
        fs \in 0..1, fe \in 0..MaxFrameEnd, st \in 1..2,
        us \in UnitSystems, sl \in ScaleLengths, clip \in Clips }

\* Scenes at the limits: one frame of VertexLimit (+1) vertices, and
\* FrameLimit + 1 frames.
LimitObjectLists ==
    { <<Object(VertexLimit, <<>>)>>,
      <<Object(VertexLimit + 1, <<>>)>>,
      <<Object(VertexLimit - 1, <<"WAVE", "HOOK">>), Object(1, <<>>)>>,
      <<Object(VertexLimit, <<"WAVE">>), Object(1, <<>>)>> }

Init ==
    /\ \/ /\ scene \in { s \in SmallScenes : s.frame_end >= s.frame_start }
          /\ selected_objects \in ObjectLists(MaxObjects)
          /\ blend_path \in { "", "/proj/anim.blend" }
       \/ /\ scene \in { Scene(1, 1, 1, "METRIC", 10, clip) : clip \in { "static", "sway" } }
          /\ selected_objects \in LimitObjectLists
          /\ blend_path = "/proj/anim.blend"
       \/ /\ scene \in { Scene(1, FrameLimit + 1, st, "METRIC", 10, "sway") : st \in {1} }
          /\ selected_objects \in { l \in ObjectLists(1) : Len(l) = 1 }
          /\ blend_path = "/proj/anim.blend"
    /\ pc = "execute"
    /\ result = "NONE"
    /\ reports = <<>>
    /\ frames_set = <<>>
    /\ frame_k = 1
    /\ ob_i = 1
    /\ bm = <<>>
    /\ mesh = 0
    /\ meshes = <<>>
    /\ data_meshes = {}
    /\ mesh_kind = <<>>
    /\ removed = <<>>
    /\ export_mesh_data = 0
    /\ data_objects = <<>>
    /\ row = 0
    /\ offsets = <<>>
    /\ normals = <<>>
    /\ stale_read = FALSE
    /\ extents = [computed |-> FALSE]
    /\ data_images = <<>>
    /\ saved = <<>>

\* ------------------------------------------------------ frame_range
\* len(range(start, end + 1, step)) for step >= 1.
RangeLen(start, stop, step) ==
    IF stop > start THEN (stop - start + step - 1) \div step ELSE 0

\* frame_range(scene) as the sequence of its frames.
frame_range ==
    [k \in 1..RangeLen(scene.frame_start, scene.frame_end + 1, scene.frame_step)
        |-> scene.frame_start + (k - 1) * scene.frame_step]

\* ---------------------------------------------------------- execute
RECURSIVE SumVerts(_)
SumVerts(obs) ==
    IF obs = <<>> THEN 0 ELSE obs[1].nverts + SumVerts(Tail(obs))

\* execute's locals.
vertex_count == SumVerts(selected_objects)

\* A frame count that ignores frame_step.
frame_count_every_frame == scene.frame_end + 1 - scene.frame_start

frame_count == Len(frame_range)

\* The first modifier, in the order of execute's two loops, whose type is
\* not allowed; "" when there is none.
RECURSIVE FirstBadIn(_)
FirstBadIn(mods) ==
    IF mods = <<>> THEN ""
    ELSE IF mods[1] \notin allowed_modifiers THEN mods[1]
    ELSE FirstBadIn(Tail(mods))

RECURSIVE FirstBadModifier(_)
FirstBadModifier(obs) ==
    IF obs = <<>> THEN ""
    ELSE IF FirstBadIn(obs[1].modifiers) # "" THEN FirstBadIn(obs[1].modifiers)
    ELSE FirstBadModifier(Tail(obs))

UnitsOk ==
    ~(scene.unit_system # "METRIC" \/ Round2(scene.scale_length) # 10)

\* A limit check that also refuses the limit itself.
VertexCountOk_inclusive == ~(vertex_count >= VertexLimit)

VertexCountOk == ~(vertex_count > VertexLimit)

FrameCountOk == ~(frame_count > FrameLimit)

\* The message execute reports, "" when validation passes.
ValidationError ==
    IF FirstBadModifier(selected_objects) # "" THEN "modifier not allowed"
    ELSE IF ~UnitsOk THEN "scene unit"
    ELSE IF ~VertexCountOk THEN "vertex count"
    ELSE IF ~FrameCountOk THEN "frame count"
    ELSE ""

\* execute, lines 225-255: the checks, each reporting and cancelling.
Cancel ==
    /\ pc = "execute"
    /\ ValidationError # ""
    /\ reports' = Append(reports, ValidationError)
    /\ result' = "CANCELLED"
    /\ pc' = "done"
    /\ UNCHANGED <<scene, selected_objects, blend_path, frames_set, frame_k, ob_i,
                   bm, mesh, meshes, data_meshes, mesh_kind, removed,
                   export_mesh_data, data_objects, row, offsets, normals,
                   stale_read, extents, data_images, saved>>

\* execute, line 256: validation passed, get_per_frame_mesh_data is called.
Validated ==
    /\ pc = "execute"
    /\ ValidationError = ""
    /\ pc' = IF Len(frame_range) = 0 THEN "copy" ELSE "frame_loop"
    /\ frame_k' = 1
    /\ meshes' = <<>>
    /\ UNCHANGED <<scene, selected_objects, blend_path, result, reports,
                   frames_set, ob_i, bm, mesh, data_meshes, mesh_kind, removed,
                   export_mesh_data, data_objects, row, offsets, normals,
                   stale_read, extents, data_images, saved>>

\* ------------------------------------------ the dependency graph
\* The evaluated geometry is a function of the scene's animation, the
\* object and the frame.  Vertex v of the i-th object, in the object's own
\* space, at frame f, under each clip:
LocalCo(clip, i, v, f) ==
    CASE clip = "static" -> <<v, 0, 0>>
      [] clip = "sway"   -> <<v + 2 * f, -f, 0>>
      [] clip = "rise"   -> <<v, 0, f * v>>
      [] clip = "sink"   -> <<v, 0, -f>>

\* ob.matrix_world: the i-th object stands i units along y.
matrix_world(i) == <<0, i, 0>>

\* data.meshes.new_from_object(ob.evaluated_get(depsgraph)): the vertices.
new_from_object(i, f) ==
    [v \in 1..selected_objects[i].nverts |-> LocalCo(scene.clip, i, v, f)]

\* mesh.transform(matrix): every vertex moved into world space.
transform(verts, m) ==
    [v \in 1..Len(verts) |-> <<verts[v][1] + m[1], verts[v][2] + m[2], verts[v][3] + m[3]>>]

\* bm.normal_update(): a unit normal per vertex, a function of the merged
\* geometry (here: of the vertex's position).
normal_update(co) ==
    IF (co[1] + co[2] + co[3]) % 2 = 0 THEN <<0, 0, 1>> ELSE <<-1, 0, 0>>

\* bm.to_mesh(mesh): the merged mesh's vertices, index = position in bm.
to_mesh(verts) ==
    [v \in 1..Len(verts) |-> [co |-> verts[v], normal |-> normal_update(verts[v])]]

\* The id data.meshes.new / new_from_object / copy gives the next mesh.
NewMeshId == Len(mesh_kind) + 1

\* ------------------------------------ get_per_frame_mesh_data
\* Lines 42-45: the next frame is set and evaluated, a bmesh is made.
FrameSet ==
    /\ pc = "frame_loop"
    /\ frame_k <= Len(frame_range)
    /\ frames_set' = Append(frames_set, frame_range[frame_k])
    /\ bm' = <<>>
    /\ ob_i' = 1
    /\ pc' = "object_loop"
    /\ UNCHANGED <<scene, selected_objects, blend_path, result, reports, frame_k,
                   mesh, meshes, data_meshes, mesh_kind, removed,
                   export_mesh_data, data_objects, row, offsets, normals,
                   stale_read, extents, data_images, saved>>

\* Lines 47-50: the object's evaluated mesh is created, transformed and
\* appended to the bmesh.
NewFromObject ==
    /\ pc = "object_loop"
    /\ mesh = 0
    /\ ob_i <= Len(selected_objects)
    /\ mesh' = NewMeshId
    /\ mesh_kind' = Append(mesh_kind, "object")
    /\ data_meshes' = data_meshes \cup {NewMeshId}
    /\ bm' = bm \o transform(new_from_object(ob_i, frames_set[Len(frames_set)]),
                             matrix_world(ob_i))
    /\ UNCHANGED <<scene, selected_objects, blend_path, pc, result, reports,
                   frames_set, frame_k, ob_i, meshes, removed, export_mesh_data,
                   data_objects, row, offsets, normals, stale_read, extents,
                   data_images, saved>>

\* Line 51: data.meshes.remove(mesh).
RemoveObjectMesh ==
    /\ pc = "object_loop"
    /\ mesh # 0
    /\ data_meshes' = data_meshes \ {mesh}
    /\ removed' = Append(removed, mesh)
    /\ mesh' = 0
    /\ ob_i' = ob_i + 1
    /\ UNCHANGED <<scene, selected_objects, blend_path, pc, result, reports,
                   frames_set, frame_k, bm, meshes, mesh_kind, export_mesh_data,
                   data_objects, row, offsets, normals, stale_read, extents,
                   data_images, saved>>

\* Lines 52-57: the merged mesh of the frame is created from the bmesh and
\* appended to the list; after the last frame the list is returned.
AppendMergedMesh ==
    /\ pc = "object_loop"
    /\ mesh = 0
    /\ ob_i > Len(selected_objects)
    /\ mesh_kind' = Append(mesh_kind, "merged")
    /\ data_meshes' = data_meshes \cup {NewMeshId}
    /\ meshes' = Append(meshes, [id |-> NewMeshId, vertices |-> to_mesh(bm)])
    /\ bm' = <<>>
    /\ frame_k' = frame_k + 1
    /\ pc' = IF frame_k = Len(frame_range) THEN "copy" ELSE "frame_loop"
    /\ UNCHANGED <<scene, selected_objects, blend_path, result, reports,
                   frames_set, ob_i, mesh, removed, export_mesh_data,
                   data_objects, row, offsets, normals, stale_read, extents,
                   data_images, saved>>

\* ---------------------------------------- execute, lines 257-258
\* Line 257: export_mesh_data = meshes[0].copy(); IndexError on an empty list.
CopyReferenceMesh ==
    /\ pc = "copy"
    /\ IF meshes = <<>>
       THEN /\ result' = "RAISED"
            /\ pc' = "done"
            /\ UNCHANGED <<mesh_kind, data_meshes, export_mesh_data>>
       ELSE /\ mesh_kind' = Append(mesh_kind, "export")
            /\ data_meshes' = data_meshes \cup {NewMeshId}
            /\ export_mesh_data' = NewMeshId
            /\ pc' = "export_object"
            /\ UNCHANGED result
    /\ UNCHANGED <<scene, selected_objects, blend_path, reports, frames_set,
                   frame_k, ob_i, bm, mesh, meshes, removed, data_objects, row,
                   offsets, normals, stale_read, extents, data_images, saved>>

\* create_export_mesh_object: the second UV layer, the object, its link into
\* the scene's collection.  get_vertex_data is entered next.
create_export_mesh_object ==
    /\ pc = "export_object"
    /\ data_objects' = Append(data_objects,
            [name |-> "export_mesh", data |-> export_mesh_data,
             uv_layer |-> "vertex_anim", linked |-> TRUE])
    /\ row' = 0
    /\ offsets' = <<>>
    /\ normals' = <<>>
    /\ pc' = "encode"
    /\ UNCHANGED <<scene, selected_objects, blend_path, result, reports,
                   frames_set, frame_k, ob_i, bm, mesh, meshes, data_meshes,
                   mesh_kind, removed, export_mesh_data, stale_read, extents,
                   data_images, saved>>

\* ------------------------------------------------ get_vertex_data
\* The export object made of meshes[0] itself, not of a copy of it.
Users_shared(id) ==
    Cardinality({ k \in 1..Len(data_objects) : data_objects[k].data = id })
        + (IF meshes # <<>> /\ id = meshes[1].id THEN 1 ELSE 0)

\* mesh.users: the objects whose data the mesh is.
Users(id) == Cardinality({ k \in 1..Len(data_objects) : data_objects[k].data = id })

\* The meshes visited in list order.
reversed_forward(n, k) == k

\* reversed(meshes): the index into meshes of the k-th mesh visited.
reversed(n, k) == n + 1 - k

\* Offsets taken from the vertex to the reference instead.
RowOffsets_swapped(m, original) ==
    [i \in 1..(4 * Len(m.vertices)) |->
        LET v == ((i - 1) \div 4) + 1
            c == ((i - 1) % 4) + 1
        IN IF c = 4 THEN One
           ELSE FSub(Flt(original[v].co[c]), Flt(m.vertices[v].co[c]))]

\* Lines 82-85: the offsets one mesh emits, against the reference vertices.
RowOffsets(m, original) ==
    [i \in 1..(4 * Len(m.vertices)) |->
        LET v == ((i - 1) \div 4) + 1
            c == ((i - 1) % 4) + 1
        IN IF c = 4 THEN One
           ELSE FSub(Flt(m.vertices[v].co[c]), Flt(original[v].co[c]))]

\* Lines 86-92: the normals one mesh emits.
RowNormals(m) ==
    [i \in 1..(4 * Len(m.vertices)) |->
        LET v == ((i - 1) \div 4) + 1
            c == ((i - 1) % 4) + 1
        IN IF c = 4 THEN One
           ELSE normalize_signed_to_zero_to_one_space(Flt(m.vertices[v].normal[c]))]

\* Lines 81-94: one mesh of reversed(meshes) is emitted and, having no
\* users, removed; after the last one the lists are returned.
EmitRow ==
    /\ pc = "encode"
    /\ row < Len(meshes)
    /\ LET m == meshes[reversed(Len(meshes), row + 1)]
           original == meshes[1].vertices
       IN /\ offsets' = offsets \o RowOffsets(m, original)
          /\ normals' = normals \o RowNormals(m)
          /\ stale_read' = (stale_read
                            \/ (Len(m.vertices) > 0
                                /\ (m.id \notin data_meshes
                                    \/ meshes[1].id \notin data_meshes)))
          /\ IF Users(m.id) = 0
             THEN /\ data_meshes' = data_meshes \ {m.id}
                  /\ removed' = Append(removed, m.id)
             ELSE UNCHANGED <<data_meshes, removed>>
    /\ row' = row + 1
    /\ pc' = IF row + 1 = Len(meshes) THEN "bake" ELSE "encode"
    /\ UNCHANGED <<scene, selected_objects, blend_path, result, reports,
                   frames_set, frame_k, ob_i, bm, mesh, meshes, mesh_kind,
                   export_mesh_data, data_objects, extents, data_images, saved>>

\* ----------------------------------------------- bake_vertex_data
\* Loops that do not skip the alpha channel.
Scanned_every(float_index) == TRUE

\* Lines 114 and 124: the float indices (from 0) the two loops work on.
Scanned(float_index) == ~((float_index + 1) % 4 = 0)

\* The values the scan of lines 113-117 folds into its minimum and maximum.
ScannedValues(offs) == { offs[i] : i \in { j \in 1..Len(offs) : Scanned(j - 1) } }

\* Lines 111-117: lowest_negative_offset and highest_positive_offset after
\* the scan, both starting from 0.0.
LowestNegativeOffset(offs) == FMinOf(ScannedValues(offs) \cup {Zero})
HighestPositiveOffset(offs) == FMaxOf(ScannedValues(offs) \cup {Zero})

\* The sum used as it is, zero included.
Span_unguarded(sum) == sum

\* Line 121: neg_max_plus_pos_max = 1 if neg_max_plus_pos_max == 0 else ...
Span(sum) == IF sum[1] = 0 THEN One ELSE sum

\* The division without the shift by lowest_negative_offset.
Rescale_no_shift(x, neg, span) == FDiv(x, span)

\* Lines 126-127: offsets[float_index] += ...; offsets[float_index] /= ...
Rescale(x, neg, span) == FDiv(FAdd(x, neg), span)

\* Lines 111-127: the locals, and the offsets list after the second loop.
BakeLocals(offs) ==
    LET lowest == FNeg(LowestNegativeOffset(offs))
        highest == HighestPositiveOffset(offs)
    IN [computed |-> TRUE,
        lowest_negative_offset |-> lowest,
        highest_positive_offset |-> highest,
        neg_max_plus_pos_max |-> Span(FAdd(highest, lowest))]

Normalized(offs, loc) ==
    [i \in 1..Len(offs) |->
        IF Scanned(i - 1)
        THEN Rescale(offs[i], loc.lowest_negative_offset, loc.neg_max_plus_pos_max)
        ELSE offs[i]]

\* data.images.new and the assignment of pixels, lines 129-144.
Image(name, width, height, float_buffer, pixels) ==
    [name |-> name, width |-> width, height |-> height, alpha |-> TRUE,
     float_buffer |-> float_buffer, pixels |-> pixels]

\* bake_vertex_data(data, offsets, normals, (vertex_count, frame_count)).
\* A division by zero in line 127 raises ZeroDivisionError.
bake_vertex_data ==
    /\ pc = "bake"
    /\ LET loc == BakeLocals(offsets)
       IN /\ extents' = loc
          /\ IF loc.neg_max_plus_pos_max[1] = 0 /\ ScannedValues(offsets) # {}
             THEN /\ result' = "RAISED"
                  /\ pc' = "done"
                  /\ UNCHANGED <<offsets, data_images>>
             ELSE /\ offsets' = Normalized(offsets, loc)
                  /\ data_images' = data_images \o
                        << Image(<<"offsets_neg_max_", loc.lowest_negative_offset,
                                   "_pos_max_", loc.highest_positive_offset>>,
                                 vertex_count, frame_count, TRUE, offsets'),
                           Image(<<"normals">>, vertex_count, frame_count, FALSE,
                                 normals) >>
                  /\ pc' = "save_offsets"
                  /\ UNCHANGED result
    /\ UNCHANGED <<scene, selected_objects, blend_path, reports, frames_set,
                   frame_k, ob_i, bm, mesh, meshes, data_meshes, mesh_kind,
                   removed, export_mesh_data, data_objects, row, normals,
                   stale_read, saved>>

\* An image of width 0 is outside what data.images.new accepts; whether the
\* host raises or clamps the width is the host's choice.  Both outcomes are
\* kept: bake_vertex_data above completes, this action raises.
images_new_rejected ==
    /\ pc = "bake"
    /\ vertex_count = 0 \/ frame_count = 0
    /\ extents' = BakeLocals(offsets)
    /\ result' = "RAISED"
    /\ pc' = "done"
    /\ UNCHANGED <<scene, selected_objects, blend_path, reports, frames_set,
                   frame_k, ob_i, bm, mesh, meshes, data_meshes, mesh_kind,
                   removed, export_mesh_data, data_objects, row, offsets,
                   normals, stale_read, data_images, saved>>

\* ------------------------------------------------- save_image_exr
\* save_image_exr(image): RuntimeError when the .blend was never saved,
\* else the image is saved beside it (the choice of a free file name is not
\* modelled).
save_image_exr(k, next_pc, next_result) ==
    /\ IF blend_path = ""
       THEN /\ result' = "RAISED"
            /\ pc' = "done"
            /\ UNCHANGED saved
       ELSE /\ saved' = Append(saved, data_images[k].name)
            /\ pc' = next_pc
            /\ result' = next_result
    /\ UNCHANGED <<scene, selected_objects, blend_path, reports, frames_set,
                   frame_k, ob_i, bm, mesh, meshes, data_meshes, mesh_kind,
                   removed, export_mesh_data, data_objects, row, offsets,
                   normals, stale_read, extents, data_images>>

\* execute, line 262.
SaveOffsetsTexture ==
    /\ pc = "save_offsets"
    /\ save_image_exr(Len(data_images) - 1, "save_normals", result)

\* execute, lines 263-265: the second save, then return {'FINISHED'}.
SaveNormalsTexture ==
    /\ pc = "save_normals"
    /\ save_image_exr(Len(data_images), "done", "FINISHED")

Next ==
    \/ Cancel
    \/ Validated
    \/ FrameSet
    \/ NewFromObject
    \/ RemoveObjectMesh
    \/ AppendMergedMesh
    \/ CopyReferenceMesh
    \/ create_export_mesh_object
    \/ EmitRow
    \/ bake_vertex_data
    \/ images_new_rejected
    \/ SaveOffsetsTexture
    \/ SaveNormalsTexture

Spec == Init /\ [][Next]_vars

\* =============================================================== claims
\* Shared vocabulary of the claims.

\* The ids of the live meshes of one kind.
Live(kind) == { id \in data_meshes : mesh_kind[id] = kind }

\* get_vertex_data has been entered and has returned.
GetVertexDataReturned == data_objects # <<>> /\ pc # "encode"

\* Nothing has been sampled and nothing has been created.
NothingDone ==
    /\ frames_set = <<>>
    /\ mesh_kind = <<>>
    /\ data_objects = <<>>
    /\ data_images = <<>>

\* The raw offset the spec's layout puts in row r, column v, channel c
\* (rows and columns from 0, channels 1..3), from the list of meshes.
LayoutOffset(r, v, c) ==
    meshes[Len(meshes) - r].vertices[v + 1].co[c] - meshes[1].vertices[v + 1].co[c]

\* The raw offset at flat position i (from 1) of a full table.
LayoutAt(i) ==
    LET p == (i - 1) \div 4
    IN LayoutOffset(p \div vertex_count, p % vertex_count, ((i - 1) % 4) + 1)

\* All non-alpha raw offsets of the full table, and 0.
LayoutValues ==
    { LayoutAt(i) : i \in { j \in 1..(4 * vertex_count * Len(meshes)) : j % 4 # 0 } }
        \cup {0}

IntMin(S) == CHOOSE m \in S : \A x \in S : m <= x
IntMax(S) == CHOOSE m \in S : \A x \in S : x <= m

\* ---------------------------------------------------------------- C1
\* C1: whenever validation fails (vertex_count > 8192, frame_count > 8192,
\* a modifier outside the allow-list on a selected mesh object, or scene
\* units not metric with scale 0.01) the operator reports an error and
\* returns CANCELLED with no frame set and no mesh, object or image created;
\* vertex_count = 8192 with otherwise valid inputs passes validation, and
\* 8193 fails.
InvalidInput ==
    \/ vertex_count > 8192
    \/ frame_count > 8192
    \/ \E i \in 1..Len(selected_objects) :
         \E j \in 1..Len(selected_objects[i].modifiers) :
            selected_objects[i].modifiers[j] \notin allowed_modifiers
    \/ scene.unit_system # "METRIC"
    \/ Round2(scene.scale_length) # 10

C1_ValidationCancelsBeforeSampling ==
    /\ (InvalidInput /\ pc # "execute") =>
            /\ pc = "done"
            /\ result = "CANCELLED"
            /\ Len(reports) = 1
            /\ NothingDone
    /\ (result = "CANCELLED") => NothingDone
    /\ (vertex_count = 8192 /\ ~InvalidInput /\ pc # "execute") =>
            /\ result # "CANCELLED"
            /\ reports = <<>>
    /\ (vertex_count = 8193 /\ pc # "execute") => result = "CANCELLED"

\* An invocation with 8193 vertices has been cancelled.
C1_Witness ==
    /\ vertex_count = 8193
    /\ frame_count <= 8192
    /\ result = "CANCELLED"
    /\ reports = <<"vertex count">>

\* ---------------------------------------------------------------- C2
\* C2: no partial output on failure: in every invocation that does not
\* finish successfully (the missing save target included) no frame has been
\* evaluated, no export mesh object linked and no image created when it
\* fails.  Stated for the inputs with at least one vertex; those without
\* are C3's.
C2_NoPartialOutputOnFailure ==
    (result \in {"CANCELLED", "RAISED"} /\ vertex_count > 0) =>
        /\ frames_set = <<>>
        /\ data_objects = <<>>
        /\ data_images = <<>>

\* ---------------------------------------------------------------- C3
\* C3: with zero mesh objects selected (vertex_count = 0) or zero frames the
\* operator ends reported and cancelled, never reaches texture creation and
\* never raises.
TextureCreationReached ==
    pc \in {"bake", "save_offsets", "save_normals"} \/ data_images # <<>>

C3_DegenerateInputIsCancelled ==
    (vertex_count = 0 \/ frame_count = 0) =>
        /\ ~TextureCreationReached
        /\ result # "RAISED"
        /\ (pc = "done" => result = "CANCELLED" /\ reports # <<>>)

\* ---------------------------------------------------------------- C4
\* C4: for valid inputs the lists get_vertex_data returns have
\* 4 * vertex_count * frame_count elements each, vertex_count and
\* frame_count being the width and height execute passes on, so both
\* textures' pixel buffers have 4 * width * height elements.
C4_FlatListLengths ==
    /\ (pc = "encode") =>
            /\ Len(offsets) = 4 * vertex_count * row
            /\ Len(normals) = 4 * vertex_count * row
    /\ GetVertexDataReturned =>
            /\ Len(offsets) = 4 * vertex_count * frame_count
            /\ Len(normals) = 4 * vertex_count * frame_count
    /\ \A k \in 1..Len(data_images) :
            /\ data_images[k].width = vertex_count
            /\ data_images[k].height = frame_count
            /\ Len(data_images[k].pixels) = 4 * data_images[k].width * data_images[k].height

\* Two textures of 4 vertices by 2 frames (stepped by 2) have been made.
C4_Witness ==
    /\ Len(data_images) = 2
    /\ vertex_count = 4
    /\ frame_count = 2
    /\ scene.frame_step = 2
    /\ Len(data_images[1].pixels) = 32

\* ---------------------------------------------------------------- C5
\* C5: the 4-tuple at flat position 4 * (r * vertex_count + v) of the raw
\* offsets is (pos(meshes[N-1-r], v) - pos(meshes[0], v), 1.0): row 0 is the
\* last frame, row N-1 the reference frame, vertices ascending in a row; so
\* every offset of the last row is (0, 0, 0) before normalization.
C5_EmissionOrderFixesLayout ==
    (pc \in {"encode", "bake"}) =>
        /\ \A r \in 0..(row - 1) : \A v \in 0..(vertex_count - 1) :
              LET base == 4 * (r * vertex_count + v)
              IN /\ \A c \in 1..3 : FEq(offsets[base + c], Flt(LayoutOffset(r, v, c)))
                 /\ FEq(offsets[base + 4], One)
        /\ (pc = "bake") =>
              \A v \in 0..(vertex_count - 1) : \A c \in 1..3 :
                 offsets[4 * ((Len(meshes) - 1) * vertex_count + v) + c][1] = 0

\* Three rows of two vertices have been emitted, the first row (the last
\* frame) differing from the second.
C5_Witness ==
    /\ pc = "bake"
    /\ Len(meshes) = 3
    /\ vertex_count = 2
    /\ \E c \in 1..3 : ~FEq(offsets[c], offsets[8 + c])
    /\ \E c \in 1..3 : offsets[8 + c][1] # 0

\* ---------------------------------------------------------------- C6
\* C6: normalization is one shared invertible affine map: with
\* neg_extent = -min(0, min of the non-alpha offsets), pos_extent =
\* max(0, max of them) and span = pos_extent + neg_extent (1 if that is 0),
\* every non-alpha value v becomes v' = (v + neg_extent) / span, so
\* 0 <= v' <= 1 and v' * span - neg_extent = v; the offset texture's name
\* records exactly neg_extent and pos_extent.
C6_NormalizationIsSharedAffineMap ==
    (data_images # <<>>) =>
        LET img == data_images[1]
            neg_extent == -IntMin(LayoutValues)
            pos_extent == IntMax(LayoutValues)
            span == IF pos_extent + neg_extent = 0 THEN 1 ELSE pos_extent + neg_extent
        IN /\ \A i \in 1..Len(img.pixels) :
                (i % 4 # 0) =>
                    LET p == img.pixels[i]
                    IN /\ p[2] > 0
                       /\ 0 <= p[1]
                       /\ p[1] <= p[2]
                       /\ p[1] * span - neg_extent * p[2] = LayoutAt(i) * p[2]
           /\ img.name[1] = "offsets_neg_max_"
           /\ FEq(img.name[2], Flt(neg_extent))
           /\ img.name[3] = "_pos_max_"
           /\ FEq(img.name[4], Flt(pos_extent))

\* A texture has been baked from offsets of both signs, with a span that is
\* neither extent.
C6_Witness ==
    /\ data_images # <<>>
    /\ IntMin(LayoutValues) < 0
    /\ IntMax(LayoutValues) > 0
    /\ Len(meshes) >= 2
    /\ \E i \in 1..Len(data_images[1].pixels) :
          i % 4 # 0 /\ 0 < data_images[1].pixels[i][1]
                    /\ data_images[1].pixels[i][1] < data_images[1].pixels[i][2]

\* ---------------------------------------------------------------- C7
\* C7: if every non-alpha offset passed to bake_vertex_data is zero (a
\* single frame included), then neg_extent = 0, pos_extent = 0, span is 1,
\* nothing is divided by zero and every normalized non-alpha value is 0.
NoMotion ==
    \A k \in 1..Len(meshes) : \A v \in 1..Len(meshes[k].vertices) :
        meshes[k].vertices[v].co = meshes[1].vertices[v].co

C7_NoMotionSpanIsOne ==
    (extents.computed /\ NoMotion) =>
        /\ extents.lowest_negative_offset[1] = 0
        /\ extents.highest_positive_offset[1] = 0
        /\ FEq(extents.neg_max_plus_pos_max, One)
        /\ (vertex_count > 0) => Len(data_images) = 2
        /\ (data_images # <<>>) =>
              \A i \in 1..Len(data_images[1].pixels) :
                 (i % 4 # 0) => /\ data_images[1].pixels[i][2] # 0
                                /\ data_images[1].pixels[i][1] = 0

\* Three frames of a mesh that does not move have been baked.
C7_Witness ==
    /\ extents.computed
    /\ NoMotion
    /\ Len(meshes) = 3
    /\ vertex_count >= 2
    /\ Len(data_images) = 2

\* ---------------------------------------------------------------- C8
\* C8: every 4th element of offsets and of normals is exactly 1.0 when
\* emitted and still when assigned to the textures' pixels: the alpha
\* channel is skipped by the scan and by the rescaling, so it influences
\* neither extent and is never modified.
C8_AlphaIsOne ==
    /\ \A i \in 1..Len(offsets) : (i % 4 = 0) => offsets[i] = One
    /\ \A i \in 1..Len(normals) : (i % 4 = 0) => normals[i] = One
    /\ \A k \in 1..Len(data_images) : \A i \in 1..Len(data_images[k].pixels) :
            (i % 4 = 0) => data_images[k].pixels[i] = One
    /\ extents.computed =>
            /\ FEq(extents.highest_positive_offset, Flt(IntMax(LayoutValues)))
            /\ FEq(extents.lowest_negative_offset, Flt(-IntMin(LayoutValues)))

\* Offsets that are all below 1.0 (none positive) have been baked, with a
\* span other than 1.
C8_Witness ==
    /\ Len(data_images) = 2
    /\ Len(data_images[1].pixels) >= 8
    /\ extents.highest_positive_offset[1] = 0
    /\ ~FEq(extents.neg_max_plus_pos_max, One)

\* ---------------------------------------------------------------- C9
\* C9: at every point of a bake at most one per-frame merged mesh has been
\* created and not yet removed.
C9_OneLiveMergedMesh == Cardinality(Live("merged")) <= 1

\* C9 as amended: the merged meshes of all frames are kept until the
\* encoder runs, so at most frame_count are live; while sampling, every
\* merged mesh made so far is live; in the encoder each is removed as soon
\* as its row has been emitted, and none is left when it returns.
C9_MergedMeshesLiveUntilEmitted ==
    /\ Cardinality(Live("merged")) <= frame_count
    /\ (pc \in {"frame_loop", "object_loop", "copy", "export_object"}) =>
            Live("merged") = { meshes[k].id : k \in 1..Len(meshes) }
    /\ (pc = "encode") =>
            Live("merged") = { meshes[k].id : k \in 1..(Len(meshes) - row) }
    /\ GetVertexDataReturned => Live("merged") = {}

\* Three merged meshes are live together and the encoder has then removed
\* one of them.
C9_Witness ==
    /\ pc = "encode"
    /\ row = 1
    /\ Len(meshes) = 3
    /\ Cardinality(Live("merged")) = 2

\* --------------------------------------------------------------- C10
\* C10: in get_vertex_data no mesh's vertices are read after the mesh was
\* removed (the reference mesh meshes[0] is the last one removed); every
\* per-object mesh and every merged mesh is removed exactly once; when
\* get_vertex_data returns, the export mesh copy is the only mesh of the
\* bake that is left.
TimesRemoved(id) == Cardinality({ k \in 1..Len(removed) : removed[k] = id })

C10_MeshLifetimes ==
    /\ ~stale_read
    /\ \A id \in 1..Len(mesh_kind) :
            /\ TimesRemoved(id) <= 1
            /\ (id \in data_meshes) <=> (TimesRemoved(id) = 0)
    /\ (pc # "object_loop") => Live("object") = {}
    /\ (meshes # <<>> /\ meshes[1].id \notin data_meshes) =>
            /\ removed[Len(removed)] = meshes[1].id
            /\ Live("merged") = {}
    /\ GetVertexDataReturned =>
            /\ data_meshes = {export_mesh_data}
            /\ mesh_kind[export_mesh_data] = "export"
            /\ \A id \in 1..Len(mesh_kind) :
                  (id # export_mesh_data) => TimesRemoved(id) = 1

\* get_vertex_data has returned after three frames of two objects: nine
\* meshes were removed, the reference mesh last.
C10_Witness ==
    /\ GetVertexDataReturned
    /\ Len(meshes) = 3
    /\ Len(selected_objects) = 2
    /\ Len(removed) = 9
    /\ removed[9] = meshes[1].id
    /\ data_meshes = {export_mesh_data}

====
